---- MODULE Spec2Model ----
(***************************************************************************)
(* Membership workflow of StudyViewSet (aid_web/studyapp/views.py).        *)
(*                                                                         *)
(* One Study row and its StudyUserRelation rows are modelled.  Every       *)
(* request runs as one step in Spec; SpecConc interleaves the reads and    *)
(* writes of concurrent requests.                                          *)
(* Requests are issued by authenticated users; user NumUsers is the one    *)
(* holding the administrative role.                                        *)
(***************************************************************************)
EXTENDS Integers, Sequences, FiniteSets, TLC

\* Number of rows of the User table.
NumUsers == 3

\* Number of requests handled concurrently, one per worker.
NumWorkers == 2

Workers == 1..NumWorkers

Users == 1..NumUsers

\* Python None / SQL NULL in Study.leader; also "no user_id in the URL".
None == 0

\* A user_id matched by \d+ in the URL for which no User row exists.
UnknownId == NumUsers + 1

UserIds == Users \cup {UnknownId}

\* The administrative role (request.user of an admin).
IsAdmin(u) == u = NumUsers

\* Study.StatusType: OPENED and one value standing for every other status.
OPENED == "OPENED"
StatusType == {OPENED, "CLOSED"}

\* Rows inserted as already approved.
IsApprovedOnInsert == TRUE

\* is_approve of a relation row inserted by users.add().
IsApproveDefault == FALSE

VARIABLES
    exists,     \* the Study row is in the table
    status,     \* Study.status
    leader,     \* Study.leader: a user or None
    relation,   \* relation[u]: is_approve of each StudyUserRelation row (study, u)
    last,       \* the most recent request and its response
    joined,     \* the user whose join succeeded and was followed by nothing
                \* but approval_with_id requests for that user and further
                \* join requests of that user; else None
    scenario,   \* how far the requests so far follow the sequence create by A,
                \* join by B, approval, approval_with_id(B), quit by A,
                \* set_leader_with_id(B), and who A and B are
    req         \* req[w]: the request worker w is handling concurrently with
                \* the other workers, its position and what it has read

vars == <<exists, status, leader, relation, last, joined, scenario, req>>

study == <<exists, status, leader, relation>>

\* Relation rows of user id (none for an id without a User row).
Rows(id) == IF id \in Users THEN relation[id] ELSE <<>>

\* request.user, the user_id of the URL, what the handler found when it read
\* the study (its leader and the rows of the user the request is about),
\* and the response.
NoRequest ==
    [op |-> "none", user |-> None, user_id |-> None,
     leader |-> None, rows |-> <<>>, result |-> "none"]

Response(op, r, t, res) ==
    [op |-> op, user |-> r, user_id |-> t,
     leader |-> leader, rows |-> Rows(IF t # None THEN t ELSE r), result |-> res]

\* A worker without a request.  Of a request in progress: the user it is about
\* (request.user of join and quit, user_id of the others), instance.leader and
\* instance.status as get_object read them, whether that user had a row when
\* the handler looked, and which of its writes are in the database.
Idle ==
    [op |-> "none", user |-> None, pc |-> "idle",
     leader |-> None, status |-> OPENED, found |-> FALSE, wrote |-> "none"]

NoScenario == [step |-> 0, A |-> None, B |-> None]

\* The position in the sequence after request op of r about t.  The requests
\* that need the leader or an admin are issued by one of them; any request
\* that is not the next of the sequence ends it.
ScenarioNext(op, r, t) ==
    LET authorized == leader = r \/ IsAdmin(r) IN
    IF op = "create" THEN [step |-> 1, A |-> r, B |-> None]
    ELSE IF scenario.step = 1 /\ op = "join" /\ r # scenario.A /\ status = OPENED
    THEN [step |-> 2, A |-> scenario.A, B |-> r]
    ELSE IF \/ scenario.step = 2 /\ op = "approval" /\ authorized
            \/ scenario.step = 3 /\ op = "approval_with_id"
                 /\ t = scenario.B /\ authorized
            \/ scenario.step = 4 /\ op = "quit" /\ r = scenario.A
            \/ scenario.step = 5 /\ op = "set_leader_with_id"
                 /\ t = scenario.B /\ authorized
    THEN [scenario EXCEPT !.step = @ + 1]
    ELSE NoScenario

Respond(op, r, t, res) ==
    /\ last' = Response(op, r, t, res)
    /\ scenario' = ScenarioNext(op, r, t)
    /\ UNCHANGED req
    /\ joined' = IF op = "join" /\ res = "OK" THEN r
                 ELSE IF op = "approval_with_id" /\ t = joined THEN joined
                 ELSE IF op = "join" /\ r = joined THEN joined
                 ELSE None

----------------------------------------------------------------------------
\* Relation rows (instance.users / instance.studyuserrelation_set).

users_exists(id) == Len(Rows(id)) > 0

users_add(rel, u) ==
    IF rel[u] = <<>> THEN [rel EXCEPT ![u] = <<IsApproveDefault>>] ELSE rel

\* remove() that clears the whole member set.
users_remove_all(rel, id) == [u \in Users |-> <<>>]

\* remove() that deletes no row.
users_remove_nothing(rel, id) == rel

users_remove(rel, id) == [u \in Users |-> IF u = id THEN <<>> ELSE rel[u]]

----------------------------------------------------------------------------
\* Permission gate.

IsAuthenticatedOrReadOnly(r) == r \in Users

IsOwnerOfStudyOrAdmin(r) == leader = r \/ IsAdmin(r)

HasPermission(class, r) ==
    IF class = "IsOwnerOfStudyOrAdmin" THEN IsOwnerOfStudyOrAdmin(r)
    ELSE IsAuthenticatedOrReadOnly(r)

\* Every action left with the permission of quit and join.
permission_classes_open(op) == {"IsAuthenticatedOrReadOnly"}

permission_classes(op) ==
    CASE op = "quit" -> {"IsAuthenticatedOrReadOnly"}
      [] op = "join" -> {"IsAuthenticatedOrReadOnly"}
      [] op = "approval" -> {"IsOwnerOfStudyOrAdmin"}
      [] op = "approval_with_id" -> {"IsOwnerOfStudyOrAdmin"}
      [] op = "reject_with_id" -> {"IsOwnerOfStudyOrAdmin"}
      [] op = "set_leader_with_id" -> {"IsOwnerOfStudyOrAdmin"}
      [] OTHER -> {"IsAuthenticatedOrReadOnly", "IsOwnerOfStudyOrAdmin"}

\* self.get_object(): "NotFound" without the row, "Forbidden" when an
\* object-level permission refuses, "OK" otherwise.
get_object(op, r) ==
    IF ~exists THEN "NotFound"
    ELSE IF \A c \in permission_classes(op) : HasPermission(c, r) THEN "OK"
    ELSE "Forbidden"

----------------------------------------------------------------------------
\* Handlers.

\* StudySerializer.create: the row of the intermediate table for the creator.
serializer_create(r, ap) == [relation EXCEPT ![r] = <<ap>>]

create(r, st, ap) ==
    /\ ~exists
    /\ exists' = TRUE
    /\ status' = st
    /\ leader' = r
    /\ relation' = serializer_create(r, ap)
    /\ Respond("create", r, None, "OK")

update(r, st) ==
    LET got == get_object("update", r) IN
    IF got # "OK"
    THEN /\ Respond("update", r, None, got)
         /\ UNCHANGED study
    ELSE /\ status' = st
         /\ Respond("update", r, None, "OK")
         /\ UNCHANGED <<exists, leader, relation>>

\* quit with the leader test inverted.
quit_leader_inverted(r) == IF leader # r THEN None ELSE leader

\* quit without the leader test: the leader is never cleared.
quit_leader_kept(r) == leader

quit_leader(r) == IF leader = r THEN None ELSE leader

quit(r) ==
    LET got == get_object("quit", r) IN
    IF got # "OK"
    THEN /\ Respond("quit", r, None, got)
         /\ UNCHANGED study
    ELSE /\ relation' = users_remove(relation, r)
         /\ leader' = quit_leader(r)
         /\ Respond("quit", r, None, "OK")
         /\ UNCHANGED <<exists, status>>

\* join without the status test.
join_always_available == FALSE

join_not_available == status # OPENED

\* join without the duplicate test.
join_never_joined(r) == FALSE

join_already_joined(r) == users_exists(r)

join(r) ==
    LET got == get_object("join", r) IN
    IF got # "OK"
    THEN /\ Respond("join", r, None, got)
         /\ UNCHANGED study
    ELSE IF join_not_available \/ join_already_joined(r)
    THEN /\ Respond("join", r, None, "Forbidden")
         /\ UNCHANGED study
    ELSE /\ relation' = users_add(relation, r)
         /\ Respond("join", r, None, "OK")
         /\ UNCHANGED <<exists, status, leader>>

approval(r) ==
    /\ Respond("approval", r, None, get_object("approval", r))
    /\ UNCHANGED study

\* is_approve toggled instead of set.
approve_toggle(row) == ~row

approve(row) == TRUE

approval_with_id(r, t) ==
    LET got == get_object("approval_with_id", r) IN
    IF got # "OK"
    THEN /\ Respond("approval_with_id", r, t, got)
         /\ UNCHANGED study
    ELSE IF ~users_exists(t)
    THEN /\ Respond("approval_with_id", r, t, "NotFound")
         /\ UNCHANGED study
    ELSE /\ relation' = [relation EXCEPT ![t] = <<approve(Head(relation[t]))>>]
         /\ Respond("approval_with_id", r, t, "OK")
         /\ UNCHANGED <<exists, status, leader>>

\* reject without the leader test.
reject_is_leader_no(t) == IF leader = None THEN "AttributeError" ELSE "no"

\* int(user_id) == instance.leader.id: "AttributeError" when leader is None.
reject_is_leader(t) ==
    IF leader = None THEN "AttributeError"
    ELSE IF t = leader THEN "yes" ELSE "no"

reject_with_id(r, t) ==
    LET got == get_object("reject_with_id", r) IN
    IF got # "OK"
    THEN /\ Respond("reject_with_id", r, t, got)
         /\ UNCHANGED study
    ELSE IF reject_is_leader(t) = "AttributeError"
    THEN /\ Respond("reject_with_id", r, t, "ServerError")
         /\ UNCHANGED study
    ELSE IF reject_is_leader(t) = "yes"
    THEN /\ Respond("reject_with_id", r, t, "Forbidden")
         /\ UNCHANGED study
    ELSE /\ relation' = users_remove(relation, t)
         /\ Respond("reject_with_id", r, t, "OK")
         /\ UNCHANGED <<exists, status, leader>>

\* set_leader_with_id that writes the row of a member anew.
set_leader_users_reset(t) ==
    IF users_exists(t) THEN [relation EXCEPT ![t] = <<IsApproveDefault>>]
    ELSE users_add(relation, t)

\* set_leader_with_id without users.add().
set_leader_users_skip(t) == relation

set_leader_users(t) == IF users_exists(t) THEN relation ELSE users_add(relation, t)

set_leader_not_found(t) == ~users_exists(t) /\ t \notin Users

\* User.DoesNotExist left uncaught.
user_does_not_exist_unhandled == "ServerError"

\* except User.DoesNotExist: 404.
user_does_not_exist == "NotFound"

set_leader_with_id(r, t) ==
    LET got == get_object("set_leader_with_id", r) IN
    IF got # "OK"
    THEN /\ Respond("set_leader_with_id", r, t, got)
         /\ UNCHANGED study
    ELSE IF set_leader_not_found(t)
    THEN /\ Respond("set_leader_with_id", r, t, user_does_not_exist)
         /\ UNCHANGED study
    ELSE /\ leader' = t
         /\ relation' = set_leader_users(t)
         /\ Respond("set_leader_with_id", r, t, "OK")
         /\ UNCHANGED <<exists, status>>

----------------------------------------------------------------------------

Init ==
    /\ exists = FALSE
    /\ status = OPENED
    /\ leader = None
    /\ relation = [u \in Users |-> <<>>]
    /\ last = NoRequest
    /\ joined = None
    /\ scenario = NoScenario
    /\ req = [w \in Workers |-> Idle]

Next ==
    \/ \E r \in Users, st \in StatusType, ap \in BOOLEAN : create(r, st, ap)
    \/ \E r \in Users, st \in StatusType : update(r, st)
    \/ \E r \in Users : quit(r)
    \/ \E r \in Users : join(r)
    \/ \E r \in Users : approval(r)
    \/ \E r \in Users, t \in UserIds : approval_with_id(r, t)
    \/ \E r \in Users, t \in UserIds : reject_with_id(r, t)
    \/ \E r \in Users, t \in UserIds : set_leader_with_id(r, t)

Spec == Init /\ [][Next]_vars

TypeOK ==
    /\ exists \in BOOLEAN
    /\ status \in StatusType
    /\ leader \in Users \cup {None}
    /\ \A u \in Users : Len(relation[u]) <= 1

----------------------------------------------------------------------------
\* Concurrent requests.  Each worker handles one request: it reads the study
\* and the rows (get_object and the tests of the handler), writes the rows
\* (users.add / users.remove), saves the study (instance.save()) and is done.
\* Other workers' steps come between these.  Of a finished request the
\* worker keeps what was asked and which writes were made.

Finished(q, pc, wrote) ==
    [Idle EXCEPT !.op = q.op, !.user = q.user, !.pc = pc, !.wrote = wrote]

ConcurrentOps == {"join", "quit", "reject_with_id", "set_leader_with_id"}

\* No handler wrapped in a transaction.
atomic_none(op) == FALSE

\* @transaction.atomic(): the writes of the handler commit together.
atomic(op) == op \in {"quit", "set_leader_with_id"}

\* The handler answers without writing (user_queryset.get() raises when it
\* finds two rows).
refused(op, r, t) ==
    \/ get_object(op, r) # "OK"
    \/ op = "join" /\ (join_not_available \/ join_already_joined(r))
    \/ op = "reject_with_id" /\ reject_is_leader(t) # "no"
    \/ op = "set_leader_with_id" /\ set_leader_not_found(t)
    \/ op = "set_leader_with_id" /\ Len(Rows(t)) > 1

\* A refused request is answered at once and leaves the worker free.
\* Workers are numbered in the order their requests arrive.
conc_read(w, op, r, t) ==
    /\ req[w].pc = "idle"
    /\ \A v \in Workers : v < w => req[v].pc # "idle"
    /\ (op \in {"join", "quit"}) = (t = None)
    /\ ~refused(op, r, t)
    /\ req' = [req EXCEPT ![w] =
                [op |-> op, user |-> IF t # None THEN t ELSE r, pc |-> "users",
                 leader |-> leader, status |-> status,
                 found |-> users_exists(IF t # None THEN t ELSE r),
                 wrote |-> "none"]]
    /\ UNCHANGED <<study, last, joined, scenario>>

\* The INSERT of users.add(): stale tells that add() looked for the row
\* before another request inserted it.
users_insert(rel, u, stale) ==
    IF rel[u] = <<>> \/ stale THEN [rel EXCEPT ![u] = Append(@, IsApproveDefault)]
    ELSE rel

\* The rows after the users.add / users.remove of request q.
written_users(q, stale) ==
    CASE q.op = "join" -> users_insert(relation, q.user, stale)
      [] q.op = "quit" -> users_remove(relation, q.user)
      [] q.op = "reject_with_id" -> users_remove(relation, q.user)
      [] q.op = "set_leader_with_id" ->
            IF q.found THEN relation ELSE users_insert(relation, q.user, stale)

\* instance.leader as instance.save() of request q writes it.
saved_leader(q) ==
    CASE q.op = "quit" -> IF q.leader = q.user THEN None ELSE q.leader
      [] q.op = "set_leader_with_id" -> q.user
      [] OTHER -> q.leader

conc_users(w) ==
    /\ req[w].pc = "users"
    /\ \E stale \in BOOLEAN : relation' = written_users(req[w], stale)
    /\ IF atomic(req[w].op)
       THEN /\ leader' = saved_leader(req[w])
            /\ status' = req[w].status
            /\ req' = [req EXCEPT ![w] = Finished(req[w], "done", "both")]
       ELSE /\ UNCHANGED <<leader, status>>
            /\ req' = [req EXCEPT ![w].pc = "save", ![w].wrote = "users"]
    /\ UNCHANGED <<exists, last, joined, scenario>>

conc_save(w) ==
    /\ req[w].pc = "save"
    /\ leader' = saved_leader(req[w])
    /\ status' = req[w].status
    /\ req' = [req EXCEPT ![w] = Finished(req[w], "done", "both")]
    /\ UNCHANGED <<exists, relation, last, joined, scenario>>

\* The request fails before its next write (an exception, a lost
\* connection): writes already committed stay, a transaction is rolled back.
conc_abort(w) ==
    /\ req[w].pc \in {"users", "save"}
    /\ req' = [req EXCEPT ![w] = Finished(req[w], "failed", req[w].wrote)]
    /\ UNCHANGED <<study, last, joined, scenario>>

\* The study after create by user 1 and join by user 2.
InitConc ==
    /\ exists = TRUE
    /\ status = OPENED
    /\ leader = 1
    /\ \E ap \in BOOLEAN :
         relation = [u \in Users |-> IF u = 1 THEN <<ap>>
                                     ELSE IF u = 2 THEN <<IsApproveDefault>>
                                     ELSE <<>>]
    /\ last = NoRequest
    /\ joined = None
    /\ scenario = NoScenario
    /\ req = [w \in Workers |-> Idle]

NextConc ==
    \/ \E w \in Workers, op \in ConcurrentOps, r \in Users,
          t \in UserIds \cup {None} : conc_read(w, op, r, t)
    \/ \E w \in Workers : conc_users(w)
    \/ \E w \in Workers : conc_save(w)
    \/ \E w \in Workers : conc_abort(w)

SpecConc == InitConc /\ [][NextConc]_vars

----------------------------------------------------------------------------
\* Properties.  In a step, last' is the request the step executes and the
\* unprimed variables are the state the request finds.

\* C1: in every state reachable by create, join, approval_with_id,
\* reject_with_id, quit and set_leader_with_id requests, the leader of the
\* study is null or a user who has a relation row for the study.
C1_LeaderIsMember == leader # None => users_exists(leader)

C1_Witness ==
    /\ last.op = "set_leader_with_id" /\ last.result = "OK"
    /\ last.leader = None /\ last.rows = <<>>
    /\ leader = last.user_id /\ users_exists(leader)

\* C2: join on a study whose status is not OPENED ends in Forbidden and
\* leaves the relation rows, the leader and the status unchanged.
C2_JoinNotOpened ==
    [][(exists /\ status # OPENED /\ last'.op = "join")
        => (last'.result = "Forbidden" /\ study' = study)]_vars

C2_Witness ==
    /\ exists /\ status # OPENED
    /\ last.op = "join" /\ last.result = "Forbidden" /\ last.rows = <<>>

\* C3: on an OPENED study a join by a user without a relation row succeeds
\* and leaves exactly one row for the user; a join of the same user that
\* follows it, with or without approval_with_id requests for the user in
\* between, ends in Forbidden, changes nothing and exactly one row remains.
C3_JoinTwice ==
    [][\A u \in Users : (last'.op = "join" /\ last'.user = u) =>
        /\ (exists /\ status = OPENED /\ ~users_exists(u))
             => (last'.result = "OK" /\ Len(relation'[u]) = 1)
        /\ joined = u
             => /\ last'.result = "Forbidden"
                /\ study' = study
                /\ Len(relation'[u]) = 1]_vars

\* The second join was refused after the user had been approved in between.
C3_Witness ==
    /\ joined # None /\ last.op = "join" /\ last.user = joined
    /\ last.result = "Forbidden" /\ status = OPENED
    /\ relation[joined] = <<TRUE>>

\* The second join was refused directly after the first.
C3_WitnessPending ==
    /\ joined # None /\ last.op = "join" /\ last.user = joined
    /\ last.result = "Forbidden" /\ status = OPENED
    /\ relation[joined] = <<FALSE>>

\* C4: after quit requested by the user who is the current leader, the
\* leader is null and that user has no relation row.
C4_LeaderQuit ==
    [][\A u \in Users :
        (exists /\ leader = u /\ last'.op = "quit" /\ last'.user = u)
        => (last'.result = "OK" /\ leader' = None /\ relation'[u] = <<>>)]_vars

C4_Witness ==
    /\ last.op = "quit" /\ last.result = "OK"
    /\ last.leader = last.user /\ last.rows # <<>>
    /\ leader = None /\ relation[last.user] = <<>>

\* C5: after a successful set_leader_with_id for an existing user without a
\* relation row, the user has a row with is_approve = false and is the
\* leader; the rows and approval flags of all other users are unchanged.
C5_SetLeaderNonMember ==
    [][\A t \in Users :
        (/\ last'.op = "set_leader_with_id" /\ last'.user_id = t
         /\ last'.result = "OK" /\ ~users_exists(t))
        => /\ relation'[t] = <<FALSE>>
           /\ leader' = t
           /\ \A v \in Users \ {t} : relation'[v] = relation[v]]_vars

C5_Witness ==
    /\ last.op = "set_leader_with_id" /\ last.result = "OK"
    /\ last.rows = <<>>
    /\ leader = last.user_id /\ relation[leader] = <<FALSE>>
    /\ \E v \in Users : relation[v] = <<TRUE>>

\* C6: reject_with_id of the current (non-null) leader ends in Forbidden and
\* leaves the relation rows and the leader unchanged.
C6_RejectLeader ==
    [][(/\ exists /\ leader # None
        /\ last'.op = "reject_with_id" /\ last'.user_id = leader)
        => (last'.result = "Forbidden" /\ study' = study)]_vars

\* The admin, who passes the permission gate, was refused for the leader.
C6_Witness ==
    /\ last.op = "reject_with_id" /\ last.result = "Forbidden"
    /\ last.leader # None /\ last.user_id = last.leader
    /\ IsAdmin(last.user) /\ last.user # last.leader
    /\ leader = last.leader /\ relation[leader] = last.rows

\* C7: in every reachable state, the leaderless one included, reject_with_id
\* by the leader or an admin for a member who is not the leader succeeds and
\* removes exactly that member's relation row.
C7_RejectMember ==
    [][\A t \in Users :
        (/\ exists /\ IsOwnerOfStudyOrAdmin(last'.user)
         /\ last'.op = "reject_with_id" /\ last'.user_id = t
         /\ users_exists(t) /\ t # leader)
        => /\ last'.result = "OK"
           /\ relation' = [relation EXCEPT ![t] = <<>>]
           /\ UNCHANGED <<exists, status, leader>>]_vars

\* C8 as stated, for every requester: approval_with_id ends in NotFound and
\* changes nothing when the user has no relation row; otherwise it sets
\* is_approve to true, and a second call succeeds and changes nothing.
C8_ApprovalAnyRequester ==
    [][\A t \in UserIds :
        (exists /\ last'.op = "approval_with_id" /\ last'.user_id = t) =>
        /\ ~users_exists(t) => (last'.result = "NotFound" /\ study' = study)
        /\ users_exists(t)
             => /\ last'.result = "OK"
                /\ relation' = [relation EXCEPT ![t] = <<TRUE>>]
                /\ UNCHANGED <<exists, status, leader>>
        /\ (last.op = "approval_with_id" /\ last.user_id = t /\ last.result = "OK")
             => (last'.result = "OK" /\ study' = study)]_vars

\* C8 (amended): approval_with_id issued by the leader or an admin ends in
\* NotFound and changes nothing when the user has no relation row; when the
\* row exists it sets is_approve to true and changes nothing else, and a
\* second such call succeeds and leaves the state as the first left it.
C8_Approval ==
    [][\A t \in UserIds :
        (/\ exists /\ IsOwnerOfStudyOrAdmin(last'.user)
         /\ last'.op = "approval_with_id" /\ last'.user_id = t) =>
        /\ ~users_exists(t) => (last'.result = "NotFound" /\ study' = study)
        /\ users_exists(t)
             => /\ last'.result = "OK"
                /\ relation' = [relation EXCEPT ![t] = <<TRUE>>]
                /\ UNCHANGED <<exists, status, leader>>
        /\ (last.op = "approval_with_id" /\ last.user_id = t /\ last.result = "OK")
             => (last'.result = "OK" /\ study' = study)]_vars

\* A user joined and was then approved twice.
C8_Witness ==
    /\ joined # None
    /\ last.op = "approval_with_id" /\ last.user_id = joined
    /\ last.result = "OK" /\ last.rows = <<TRUE>>
    /\ relation[joined] = <<TRUE>>

\* The leader asked to approve a user without a row.
C8_WitnessNotFound ==
    /\ exists /\ last.op = "approval_with_id" /\ last.result = "NotFound"
    /\ last.leader = last.user /\ last.rows = <<>>

\* C9 as stated, for every requester: set_leader_with_id with an id that is
\* no user's ends in NotFound and leaves the leader and the rows unchanged.
C9_SetLeaderUnknownAnyRequester ==
    [][(/\ exists
        /\ last'.op = "set_leader_with_id" /\ last'.user_id \notin Users)
        => (last'.result = "NotFound" /\ study' = study)]_vars

\* C9 (amended): set_leader_with_id issued by the leader or an admin with an
\* id that is no user's ends in NotFound and leaves the leader and the
\* relation rows unchanged.
C9_SetLeaderUnknown ==
    [][(/\ exists /\ IsOwnerOfStudyOrAdmin(last'.user)
        /\ last'.op = "set_leader_with_id" /\ last'.user_id \notin Users)
        => (last'.result = "NotFound" /\ study' = study)]_vars

C9_Witness ==
    /\ exists /\ last.op = "set_leader_with_id" /\ last.result = "NotFound"
    /\ last.user_id = UnknownId
    /\ last.leader = last.user /\ leader = last.leader

\* C10: approval, approval_with_id, reject_with_id and set_leader_with_id
\* requested by a user who is neither the leader nor an admin end in
\* Forbidden and change nothing; while the leader is null, only an admin
\* gets any other response from them.
C10_OwnerOrAdminOnly ==
    [][(/\ exists
        /\ last'.op \in {"approval", "approval_with_id",
                         "reject_with_id", "set_leader_with_id"})
        => /\ ~(leader = last'.user \/ IsAdmin(last'.user))
                => (last'.result = "Forbidden" /\ study' = study)
           /\ (leader = None /\ last'.result # "Forbidden")
                => IsAdmin(last'.user)]_vars

\* A member who is not an admin was refused while the study had no leader.
C10_Witness ==
    /\ exists /\ leader = None /\ last.leader = None
    /\ last.op \in {"approval", "approval_with_id",
                     "reject_with_id", "set_leader_with_id"}
    /\ last.result = "Forbidden"
    /\ ~IsAdmin(last.user) /\ users_exists(last.user)

\* C11: the sequence create by A, join by B, approval listing,
\* approval_with_id(B), quit by A, set_leader_with_id(B) runs with every
\* request succeeding; after the join B's row has is_approve = false, after
\* approval_with_id it is true, after quit by A the leader is null and A has
\* no row, and after set_leader_with_id(B) the leader is B with B's row
\* still approved.
C11_Scenario ==
    /\ scenario.step >= 1 => last.result = "OK"
    /\ scenario.step \in 1..4
         => (leader = scenario.A /\ users_exists(scenario.A))
    /\ scenario.step \in {2, 3} => relation[scenario.B] = <<FALSE>>
    /\ scenario.step = 4 => relation[scenario.B] = <<TRUE>>
    /\ scenario.step = 5
         => /\ leader = None
            /\ relation[scenario.A] = <<>>
            /\ relation[scenario.B] = <<TRUE>>
    /\ scenario.step = 6
         => (leader = scenario.B /\ relation[scenario.B] = <<TRUE>>)

C11_Witness ==
    /\ scenario.step = 6 /\ last.op = "set_leader_with_id"
    /\ leader = scenario.B /\ relation[scenario.B] = <<TRUE>>
    /\ relation[scenario.A] = <<>>

\* C12: every request on the existing study ends in success, Forbidden or
\* NotFound; none ends in an unhandled error.
C12_HandledResponses ==
    last.op # "none" => last.result \in {"OK", "Forbidden", "NotFound"}

\* NONE, PENDING or APPROVED: the state of a (study, user) pair.
RelationState(rows) ==
    IF rows = <<>> THEN "NONE" ELSE IF Head(rows) THEN "APPROVED" ELSE "PENDING"

\* C15: a request on the existing study moves the relation of a pair only
\* from NONE to PENDING (join of the user, set_leader_with_id of the user),
\* from PENDING or APPROVED to APPROVED (approval_with_id of the user) or
\* from PENDING or APPROVED to NONE (quit of the user, reject_with_id of the
\* user); never from NONE to APPROVED nor from APPROVED to PENDING.
C15_RelationTransitions ==
    [][exists => \A u \in Users :
        LET old == RelationState(relation[u])
            new == RelationState(relation'[u])
        IN  \/ relation'[u] = relation[u]
            \/ /\ old = "NONE" /\ new = "PENDING"
               /\ \/ last'.op = "join" /\ last'.user = u
                  \/ last'.op = "set_leader_with_id" /\ last'.user_id = u
            \/ /\ old = "PENDING" /\ new = "APPROVED"
               /\ last'.op = "approval_with_id" /\ last'.user_id = u
            \/ /\ old \in {"PENDING", "APPROVED"} /\ new = "NONE"
               /\ \/ last'.op = "quit" /\ last'.user = u
                  \/ last'.op = "reject_with_id" /\ last'.user_id = u]_vars

\* A non-member made leader is PENDING, while another member is APPROVED.
C15_Witness ==
    /\ last.op = "set_leader_with_id" /\ last.result = "OK"
    /\ last.rows = <<>> /\ RelationState(relation[last.user_id]) = "PENDING"
    /\ \E v \in Users : RelationState(relation[v]) = "APPROVED"

\* C16: quit by the leader makes the leader null, and a null leader of the
\* existing study stays null through every request except a successful
\* set_leader_with_id.
C16_LeaderStaysNull ==
    [][exists =>
        /\ (last'.op = "quit" /\ last'.user = leader) => leader' = None
        /\ (leader = None /\ leader' # None)
             => (last'.op = "set_leader_with_id" /\ last'.result = "OK")]_vars

\* A member was approved while the study had no leader, and it still has none.
C16_Witness ==
    /\ exists /\ leader = None /\ last.leader = None
    /\ last.op = "approval_with_id" /\ last.result = "OK"

\* C17: set_leader_with_id for a user who has a relation row changes
\* nothing but the leader: the rows and every is_approve flag, the user's
\* included, stay as they are; the leader becomes that user when the request
\* comes from the leader or an admin and stays as it is otherwise.
C17_SetLeaderMember ==
    [][\A t \in Users :
        (/\ exists /\ users_exists(t)
         /\ last'.op = "set_leader_with_id" /\ last'.user_id = t)
        => /\ relation' = relation
           /\ UNCHANGED <<exists, status>>
           /\ IF leader = last'.user \/ IsAdmin(last'.user)
              THEN last'.result = "OK" /\ leader' = t
              ELSE leader' = leader]_vars

\* An approved member who was not the leader has become the leader.
C17_Witness ==
    /\ last.op = "set_leader_with_id" /\ last.result = "OK"
    /\ last.rows = <<TRUE>> /\ last.leader # last.user_id
    /\ leader = last.user_id /\ relation[leader] = <<TRUE>>

\* C18: quit by user u succeeds, removes no row but u's, leaves every other
\* user's row and flag and the status unchanged, leaves the leader unchanged
\* when u is not the leader, and changes nothing when u has no row and is
\* not the leader.
C18_QuitFrame ==
    [][\A u \in Users :
        (exists /\ last'.op = "quit" /\ last'.user = u)
        => /\ last'.result = "OK"
           /\ relation'[u] = <<>>
           /\ \A v \in Users \ {u} : relation'[v] = relation[v]
           /\ UNCHANGED <<exists, status>>
           /\ leader # u => leader' = leader
           /\ (leader # u /\ ~users_exists(u)) => study' = study]_vars

\* A member who was not the leader quit; the leader and another approved
\* member are still there.
C18_Witness ==
    /\ last.op = "quit" /\ last.result = "OK" /\ last.rows # <<>>
    /\ last.leader # last.user /\ last.leader # None
    /\ leader = last.leader /\ relation[last.user] = <<>>
    /\ \E v \in Users \ {leader} : relation[v] = <<TRUE>>

\* A user without a row who was not the leader quit.
C18_WitnessNoRow ==
    /\ last.op = "quit" /\ last.result = "OK" /\ last.rows = <<>>
    /\ last.leader # None /\ leader = last.leader

\* C13: there is never more than one relation row for a (study, user) pair,
\* also when join requests for the pair interleave their duplicate test and
\* their insert.  Stated for the states where no request but joins has been
\* handled concurrently.
C13_UniquePair ==
    (\A w \in Workers : req[w].op \in {"none", "join"})
    => \A u \in Users : Len(relation[u]) <= 1

\* C14: the two writes of quit (rows, leader) and of set_leader_with_id
\* (rows, leader) take effect together: in no state, whether the request is
\* in progress, done or has failed, is the write of the rows in the database
\* without the save of the study.
C14_Atomic ==
    \A w \in Workers :
        req[w].op \in {"quit", "set_leader_with_id"}
        => (req[w].wrote \in {"none", "both"} /\ req[w].pc # "save")

\* The leader's quit has committed while another request is between its
\* read and its writes.
C14_Witness ==
    \E v, w \in Workers :
        /\ req[v].op = "quit" /\ req[v].pc = "done" /\ req[v].wrote = "both"
        /\ req[v].user = 1 /\ relation[1] = <<>>
        /\ req[w].pc \in {"users", "save"}

\* A set_leader_with_id for a non-member failed: neither the row nor the
\* leader is there.
C14_WitnessFailed ==
    \E w \in Workers :
        /\ req[w].op = "set_leader_with_id" /\ req[w].pc = "failed"
        /\ req[w].wrote = "none"
        /\ relation[req[w].user] = <<>> /\ leader # req[w].user

\* C19: no step of a join or reject_with_id request changes the leader or
\* the status of the study, whatever other requests commit between its read
\* of the study and its save.
C19_JoinRejectKeepLeader ==
    [][\A w \in Workers :
        (req'[w] # req[w] /\ req'[w].op \in {"join", "reject_with_id"})
        => (leader' = leader /\ status' = status)]_vars

\* C20: when a reject_with_id of user u or a quit by u and a
\* set_leader_with_id of u have run concurrently and both are done, the
\* leader is null or has a relation row.
C20_LeaderRowKept ==
    \A v, w \in Workers, u \in Users :
        (/\ req[v].op \in {"reject_with_id", "quit"} /\ req[v].user = u
         /\ req[w].op = "set_leader_with_id" /\ req[w].user = u
         /\ \A x \in Workers : req[x].pc = "done")
        => (leader = None \/ users_exists(leader))
====
